---- MODULE Spec2Model ----
(***************************************************************************)
(* Credential / model brokering layer of pie_extractor.                    *)
(*                                                                         *)
(*   APIKeyManager  src/pie-extractor/rate_manager.py                      *)
(*   ModelManager   src/pie-extractor/model_manager.py                     *)
(*   gateway        src/pie-extractor/enhanced_extractor.py                *)
(*                                                                         *)
(* Time is counted in whole seconds.  SQLite tables are modelled by        *)
(* functions (tables whose primary key the model relies on) or by          *)
(* sequences of rows (tables whose row count is itself under test).        *)
(***************************************************************************)
EXTENDS Integers, Sequences, FiniteSets, TLC

VARIABLES
    now,                \* time.time()
    config,             \* RateLimitConfig of the managers
    api_keys,           \* table api_keys: key_id -> row
    instance_mappings,  \* table instance_mappings: sequence of rows
    current_key,        \* APIKeyManager.current_key of each instance
    pc,                 \* where each instance's manager / gateway call stands
    stats,              \* per instance: requests attempted, dispatched, switches
    ret,                \* outcome of the last key-pool operation
    performance,        \* ModelRegistry.performance: model_id -> ModelPerformance
    circuit_breakers,   \* ModelManager.circuit_breakers: model_id -> CircuitBreaker
    fallback_config,    \* ModelManager.fallback_config
    reply,              \* outcome of the last model-manager operation
    km_api_keys,        \* KeyManager: table api_keys
    key_usage,          \* KeyManager: table key_usage, today's rows
    instances,          \* KeyManager: table instances, a sequence of rows
    km_reply,           \* outcome of the last KeyManager operation
    registry_models,    \* ModelRegistry.models as discovery fills it
    last_discovery,     \* ModelRegistry.last_discovery
    models_cache,       \* openrouter_manager ModelManager._models_cache
    last_fetch_time,    \* openrouter_manager ModelManager._last_fetch_time
    fetches,            \* catalog requests sent upstream, per caller
    disc_reply,         \* outcome of the last discovery call and of the one before
    client,             \* OpenRouterClient: timeout and max_retries
    call,               \* the chat_completion in progress
    sent,               \* completion requests sent upstream during the call
    result,             \* what the last chat_completion returned or raised
    extraction          \* the extraction request of the gateway: its attempts

keyVars == <<config, api_keys, instance_mappings, current_key, pc, stats, ret>>
modelVars == <<performance, circuit_breakers, fallback_config, reply>>
kmVars == <<km_api_keys, key_usage, instances, km_reply>>
discVars == <<registry_models, last_discovery, models_cache, last_fetch_time,
              fetches, disc_reply>>
clientVars == <<client, call, sent, result>>
gatewayVars == <<extraction>>
vars == <<now, config, api_keys, instance_mappings, current_key, pc, stats, ret,
          performance, circuit_breakers, fallback_config, reply,
          km_api_keys, key_usage, instances, km_reply,
          registry_models, last_discovery, models_cache, last_fetch_time,
          fetches, disc_reply, client, call, sent, result,
          extraction>>

-----------------------------------------------------------------------------
(* Bounds of the model *)

\* the clock stops advancing here
MaxTime == 3

\* RateLimitConfig values of the small configuration
SmallFreeLimit == 2

SmallPaidLimit == 3

SmallSwitchThreshold == 1

SmallMinInterval == 1

\* the seconds of one calendar day of the model
SmallDay == 3

\* the requests an instance of the shared store starts
MaxSharedRequests == 3

(* Program constants *)

\* RateLimitConfig defaults
requests_per_day_free == 50

requests_per_day_paid == 1000

key_switch_threshold == 40

min_request_interval == 3

\* should_switch_key: a better key must be less used by more than this
switch_slack == 10

\* Scenario A: requests sent, and the time they take at most
ScenarioRequests == 60

ScenarioHorizon == 200

Keys == {"k1", "k2"}

Instances == {"i1", "i2"}

\* the one instance of single-threaded use
Single == {"i1"}

NoKey == "none"

\* balance_threshold_met of each secret (OPENROUTER_API_KEY_<n>_BALANCE_MET):
\* k1 is a free-tier credential, k2 a funded one
KeyTier == [k \in Keys |-> k = "k2"]

SmallConfig ==
    [requests_per_day_free |-> SmallFreeLimit,
     requests_per_day_paid |-> SmallPaidLimit,
     key_switch_threshold  |-> SmallSwitchThreshold,
     min_request_interval  |-> SmallMinInterval]

RateLimitConfig ==
    [requests_per_day_free |-> requests_per_day_free,
     requests_per_day_paid |-> requests_per_day_paid,
     key_switch_threshold  |-> key_switch_threshold,
     min_request_interval  |-> min_request_interval]

-----------------------------------------------------------------------------
(* Table api_keys and the APIKeyInfo objects loaded from it *)

\* a key_id with no row
AbsentRow ==
    [present |-> FALSE, daily_requests |-> 0, last_request_time |-> 0,
     is_active |-> FALSE, balance_threshold_met |-> FALSE]

\* the row INSERT OR REPLACE writes: the columns it does not name take
\* their defaults (daily_requests 0, last_request_time 0, is_active 1)
NewKeyRow(balance_threshold_met) ==
    [present |-> TRUE, daily_requests |-> 0, last_request_time |-> 0,
     is_active |-> TRUE, balance_threshold_met |-> balance_threshold_met]

\* current_key = None
NoKeyInfo ==
    [key_id |-> NoKey, daily_requests |-> 0, last_request_time |-> 0,
     balance_threshold_met |-> FALSE]

APIKeyInfo(k) ==
    [key_id |-> k,
     daily_requests |-> api_keys[k].daily_requests,
     last_request_time |-> api_keys[k].last_request_time,
     balance_threshold_met |-> api_keys[k].balance_threshold_met]

load_key_info(k) ==
    IF k \in Keys /\ api_keys[k].present /\ api_keys[k].is_active
    THEN APIKeyInfo(k)
    ELSE NoKeyInfo

ActiveKeys == {k \in Keys : api_keys[k].present /\ api_keys[k].is_active}

\* ORDER BY daily_requests ASC, last_request_time ASC LIMIT 1 over the rows S.
\* Rows equal in both columns come in an order SQL leaves open: any of them.
FirstByUsage(S) ==
    {k \in S : \A j \in S :
        \/ api_keys[k].daily_requests < api_keys[j].daily_requests
        \/ /\ api_keys[k].daily_requests = api_keys[j].daily_requests
           /\ api_keys[k].last_request_time <= api_keys[j].last_request_time}

\* the key_ids _select_best_available_key may return; {NoKey} for None
select_best_available_key ==
    LET under == {k \in ActiveKeys :
                    api_keys[k].daily_requests < config.key_switch_threshold}
    IN  IF under # {} THEN FirstByUsage(under)
        ELSE IF ActiveKeys # {} THEN FirstByUsage(ActiveKeys)
        ELSE {NoKey}

-----------------------------------------------------------------------------
(* Table instance_mappings (instance_id is its primary key) *)

MappingRows(i) == SelectSeq(instance_mappings, LAMBDA r : r.instance_id = i)

\* INSERT OR REPLACE INTO instance_mappings (instance_id, key_id)
InsertOrReplaceMapping(tbl, i, k) ==
    Append(SelectSeq(tbl, LAMBDA r : r.instance_id # i),
           [instance_id |-> i, key_id |-> k])

\* a switch that writes a further row instead of updating the instance's row
UpdateMapping_inserts(tbl, i, k) ==
    Append(tbl, [instance_id |-> i, key_id |-> k])

\* UPDATE instance_mappings SET key_id = ? WHERE instance_id = ?
UpdateMapping(tbl, i, k) ==
    [n \in 1..Len(tbl) |->
        IF tbl[n].instance_id = i THEN [tbl[n] EXCEPT !.key_id = k] ELSE tbl[n]]

-----------------------------------------------------------------------------
(* APIKeyManager *)

\* DATE(...) of a timestamp: the calendar day it falls on
date_of(t) == t \div SmallDay

daily_limit(ck) ==
    IF ck.balance_threshold_met
    THEN config.requests_per_day_paid
    ELSE config.requests_per_day_free

\* the reason's "{wait_time:.1f}" read back by wait_for_rate_limit's
\* float(match.group(1)); at whole seconds the text "w.0" reads back as w
format_wait(wait_time) == wait_time * 10

parse_wait(text) == text \div 10

\* can_make_request letting a key at its daily limit through once more
can_make_request_past_limit(ck, t) ==
    IF ck.key_id = NoKey
    THEN [ok |-> FALSE, reason |-> "No API key assigned", wait |-> 0]
    ELSE IF ck.daily_requests > daily_limit(ck)
    THEN [ok |-> FALSE, reason |-> "Daily limit reached", wait |-> 0]
    ELSE IF t - ck.last_request_time < config.min_request_interval
    THEN [ok |-> FALSE, reason |-> "Rate limit: wait",
          wait |-> format_wait(config.min_request_interval
                                 - (t - ck.last_request_time))]
    ELSE [ok |-> TRUE, reason |-> "", wait |-> 0]

\* can_make_request without the check of the interval
can_make_request_without_interval(ck, t) ==
    IF ck.key_id = NoKey
    THEN [ok |-> FALSE, reason |-> "No API key assigned", wait |-> 0]
    ELSE IF ck.daily_requests >= daily_limit(ck)
    THEN [ok |-> FALSE, reason |-> "Daily limit reached", wait |-> 0]
    ELSE [ok |-> TRUE, reason |-> "", wait |-> 0]

\* can_make_request at time t, for the in-memory key ck
can_make_request(ck, t) ==
    IF ck.key_id = NoKey
    THEN [ok |-> FALSE, reason |-> "No API key assigned", wait |-> 0]
    ELSE IF ck.daily_requests >= daily_limit(ck)
    THEN [ok |-> FALSE, reason |-> "Daily limit reached", wait |-> 0]
    ELSE IF t - ck.last_request_time < config.min_request_interval
    THEN [ok |-> FALSE, reason |-> "Rate limit: wait",
          wait |-> format_wait(config.min_request_interval
                                 - (t - ck.last_request_time))]
    ELSE [ok |-> TRUE, reason |-> "", wait |-> 0]

\* add_api_key(api_key, balance_threshold_met); key_id is a hash of the secret
AddApiKey(k, b) ==
    /\ api_keys' = [api_keys EXCEPT ![k] = NewKeyRow(b)]
    /\ ret' = [op |-> "add_api_key", ok |-> TRUE]
    /\ UNCHANGED <<now, config, instance_mappings, current_key, pc, stats>>
    /\ UNCHANGED <<modelVars, kmVars, discVars, clientVars, gatewayVars>>

\* APIKeyManager.__init__ of a new instance: _assign_instance_key.
\* With no key to select the constructor raises and no manager exists.
Construct(i) ==
    /\ pc[i] = "new"
    /\ IF Len(MappingRows(i)) > 0
       THEN /\ current_key' =
                 [current_key EXCEPT ![i] = load_key_info(MappingRows(i)[1].key_id)]
            /\ pc' = [pc EXCEPT ![i] = "idle"]
            /\ ret' = [op |-> "assign", ok |-> TRUE]
            /\ UNCHANGED instance_mappings
       ELSE \E k \in select_best_available_key :
            IF k # NoKey
            THEN /\ current_key' = [current_key EXCEPT ![i] = APIKeyInfo(k)]
                 /\ instance_mappings' =
                      InsertOrReplaceMapping(instance_mappings, i, k)
                 /\ pc' = [pc EXCEPT ![i] = "idle"]
                 /\ ret' = [op |-> "assign", ok |-> TRUE]
            ELSE /\ ret' = [op |-> "assign", ok |-> FALSE]
                 /\ UNCHANGED <<current_key, instance_mappings, pc>>
    /\ UNCHANGED <<now, config, api_keys, stats>>
    /\ UNCHANGED <<modelVars, kmVars, discVars, clientVars, gatewayVars>>

\* A request of the gateway starts: wait_for_rate_limit.  It returns at once,
\* sleeps the wait the reason names and returns (without checking again), or
\* raises RateLimitError; after it returns the gateway calls upstream.
WaitForRateLimit(i, horizon, counted) ==
    /\ pc[i] = "idle"
    /\ LET r == can_make_request(current_key[i], now)
       IN  IF r.ok
           THEN /\ pc' = [pc EXCEPT ![i] = "dispatch"]
                /\ ret' = [op |-> "wait_for_rate_limit", ok |-> TRUE]
                /\ UNCHANGED now
           ELSE IF r.reason = "Rate limit: wait"
           THEN /\ now + parse_wait(r.wait) <= horizon
                /\ now' = now + parse_wait(r.wait)
                /\ pc' = [pc EXCEPT ![i] = "dispatch"]
                /\ ret' = [op |-> "wait_for_rate_limit", ok |-> TRUE]
           ELSE /\ ret' = [op |-> "wait_for_rate_limit", ok |-> FALSE]
                /\ UNCHANGED <<now, pc>>
    /\ stats' = IF counted
                THEN [stats EXCEPT ![i].attempts = @ + 1,
                                   ![i].dispatches = @ + (IF ret'.ok THEN 1 ELSE 0)]
                ELSE stats
    /\ UNCHANGED <<config, api_keys, instance_mappings, current_key>>
    /\ UNCHANGED <<modelVars, kmVars, discVars, clientVars, gatewayVars>>

\* the in-memory key after record_request at time t
recorded(ck, t) ==
    [ck EXCEPT !.daily_requests = @ + 1, !.last_request_time = t]

\* UPDATE api_keys SET daily_requests = ?, last_request_time = ? WHERE key_id = ?
UpdateUsage(tbl, ck) ==
    [k \in Keys |->
        IF k = ck.key_id /\ tbl[k].present
        THEN [tbl[k] EXCEPT !.daily_requests = ck.daily_requests,
                            !.last_request_time = ck.last_request_time]
        ELSE tbl[k]]

\* The upstream call is over (whatever its outcome): record_request
RecordRequest(i) ==
    /\ pc[i] = "dispatch"
    /\ IF current_key[i].key_id = NoKey
       THEN UNCHANGED <<current_key, api_keys>>
       ELSE /\ current_key' = [current_key EXCEPT ![i] = recorded(@, now)]
            /\ api_keys' = UpdateUsage(api_keys, current_key'[i])
    /\ pc' = [pc EXCEPT ![i] = "idle"]
    /\ ret' = [op |-> "record_request", ok |-> TRUE]
    /\ UNCHANGED <<now, config, instance_mappings, stats>>
    /\ UNCHANGED <<modelVars, kmVars, discVars, clientVars, gatewayVars>>

\* should_switch_key, with `better` the key its _select_best_available_key gave
should_switch_key(ck, better) ==
    \/ ck.key_id = NoKey
    \/ ck.daily_requests >= config.key_switch_threshold
    \/ /\ better # NoKey
       /\ better # ck.key_id
       /\ api_keys[better].daily_requests < ck.daily_requests - switch_slack

\* switch_key
SwitchKey(i, counted) ==
    /\ pc[i] = "idle"
    /\ \E better \in select_best_available_key,
          new_key \in select_best_available_key :
          IF /\ should_switch_key(current_key[i], better)
             /\ new_key # NoKey
             /\ new_key # current_key[i].key_id
          THEN /\ current_key' = [current_key EXCEPT ![i] = APIKeyInfo(new_key)]
               /\ instance_mappings' = UpdateMapping(instance_mappings, i, new_key)
               /\ ret' = [op |-> "switch_key", ok |-> TRUE]
          ELSE /\ ret' = [op |-> "switch_key", ok |-> FALSE]
               /\ UNCHANGED <<current_key, instance_mappings>>
    /\ stats' = IF counted /\ ret'.ok
                THEN [stats EXCEPT ![i].switches = @ + 1]
                ELSE stats
    /\ UNCHANGED <<now, config, api_keys, pc>>
    /\ UNCHANGED <<modelVars, kmVars, discVars, clientVars, gatewayVars>>

\* a second passes
Tick(horizon) ==
    /\ now < horizon
    /\ now' = now + 1
    /\ UNCHANGED <<config, api_keys, instance_mappings, current_key, pc, stats, ret>>
    /\ UNCHANGED <<modelVars, kmVars, discVars, clientVars, gatewayVars>>

-----------------------------------------------------------------------------
(* KeyManager, src/openrouter_manager/key_manager.py *)

\* bounds of the KeyManager part
SmallDailyLimit == 2
SmallRotateThreshold == 1
MaxUsage == 3

NoInstance == "none"

\* no row in KeyManager's api_keys / key_usage for a key
NoKeyRow == [present |-> FALSE, daily_limit |-> 0, is_active |-> FALSE]

\* uuid key ids in ascending order (ORDER BY ..., k.key_id)
KeyOrder == <<"k1", "k2">>

KeyRank(k) == CHOOSE n \in 1..Len(KeyOrder) : KeyOrder[n] = k

\* COALESCE(u.request_count, 0) for today's usage row
request_count(k) ==
    IF key_usage[k].present THEN key_usage[k].request_count ELSE 0

\* k.is_active = 1 AND (u.request_count IS NULL OR
\*                      u.request_count < k.daily_limit - threshold)
under_threshold(k, threshold) ==
    /\ km_api_keys[k].present
    /\ km_api_keys[k].is_active
    /\ \/ ~key_usage[k].present
       \/ key_usage[k].request_count < km_api_keys[k].daily_limit - threshold

\* ... ORDER BY COALESCE(u.request_count, 0) ASC, k.key_id LIMIT 1
least_used_key(threshold) ==
    LET available == {k \in Keys : under_threshold(k, threshold)}
    IN  IF available = {} THEN NoKey
        ELSE CHOOSE k \in available : \A j \in available :
                 \/ request_count(k) < request_count(j)
                 \/ (request_count(k) = request_count(j) /\ KeyRank(k) <= KeyRank(j))

InstanceRows(i) == SelectSeq(instances, LAMBDA r : r.instance_id = i)

\* INSERT INTO instances ... ON CONFLICT(instance_id) DO UPDATE SET key_id
UpsertInstance(tbl, i, k) ==
    IF \E n \in 1..Len(tbl) : tbl[n].instance_id = i
    THEN [n \in 1..Len(tbl) |->
             IF tbl[n].instance_id = i THEN [tbl[n] EXCEPT !.key_id = k] ELSE tbl[n]]
    ELSE Append(tbl, [instance_id |-> i, key_id |-> k])

\* INSERT INTO key_usage ... ON CONFLICT(key_id, usage_date) DO UPDATE SET
\* request_count = request_count + 1
IncrementUsage(tbl, k) ==
    [tbl EXCEPT ![k] = [present |-> TRUE, request_count |-> request_count(k) + 1]]

KmReply(op, i, k) == [op |-> op, instance |-> i, key |-> k]

\* KeyManager.add_api_key(api_key, daily_limit): api_key is UNIQUE, a second
\* INSERT of the same secret raises and changes nothing
KmAddApiKey(k, limit) ==
    /\ IF km_api_keys[k].present
       THEN /\ km_reply' = KmReply("add_api_key", NoInstance, NoKey)
            /\ UNCHANGED km_api_keys
       ELSE /\ km_api_keys' = [km_api_keys EXCEPT
                   ![k] = [present |-> TRUE, daily_limit |-> limit, is_active |-> TRUE]]
            /\ km_reply' = KmReply("add_api_key", NoInstance, k)
    /\ UNCHANGED <<key_usage, instances>>
    /\ UNCHANGED <<now, keyVars, modelVars, discVars, clientVars, gatewayVars>>

\* KeyManager.get_instance_key(instance_id, threshold)
GetInstanceKey(i, threshold) ==
    /\ LET rows == InstanceRows(i)
           current == IF rows = <<>> THEN NoKey ELSE rows[1].key_id
           keep == /\ current # NoKey
                   /\ km_api_keys[current].present
                   /\ km_api_keys[current].is_active
                   /\ request_count(current) < km_api_keys[current].daily_limit - threshold
           own == IF current # NoKey /\ under_threshold(current, threshold)
                  THEN current ELSE NoKey
           chosen == IF own # NoKey THEN own ELSE least_used_key(threshold)
       IN  IF keep
           THEN /\ km_reply' = KmReply("get_instance_key", i, current)
                /\ UNCHANGED <<key_usage, instances>>
           ELSE IF chosen = NoKey
                THEN /\ km_reply' = KmReply("get_instance_key", i, NoKey)
                     /\ UNCHANGED <<key_usage, instances>>
                ELSE /\ key_usage' = IncrementUsage(key_usage, chosen)
                     /\ instances' = UpsertInstance(instances, i, chosen)
                     /\ km_reply' = KmReply("get_instance_key", i, chosen)
    /\ UNCHANGED km_api_keys
    /\ UNCHANGED <<now, keyVars, modelVars, discVars, clientVars, gatewayVars>>

\* KeyManager.record_request(api_key)
KmRecordRequest(k) ==
    /\ IF km_api_keys[k].present
       THEN /\ key_usage' = IncrementUsage(key_usage, k)
            /\ km_reply' = KmReply("record_request", NoInstance, k)
       ELSE /\ km_reply' = KmReply("record_request", NoInstance, NoKey)
            /\ UNCHANGED key_usage
    /\ UNCHANGED <<km_api_keys, instances>>
    /\ UNCHANGED <<now, keyVars, modelVars, discVars, clientVars, gatewayVars>>

-----------------------------------------------------------------------------
(* ModelRegistry, src/pie-extractor/model_manager.py *)

\* bounds of the model-manager part
MaxRequests == 2
MaxBreakerRequests == 6
MaxClock == 2
SmallThreshold == 2
SmallTimeout == 1
SmallMaxRetries == 1

\* FallbackConfig defaults
max_retries == 3
circuit_breaker_threshold == 5
circuit_breaker_timeout == 300

NoModel == "none"
Categories == {"vision", "reasoning"}

\* _parse_model_data: the metadata built from one entry of the /models
\* listing; the category is the outcome of _classify_model
parse_model_data(name, category, context_length, prompt, completion, image, supports_tools) ==
    [name |-> name,
     category |-> category,
     context_length |-> context_length,
     pricing |-> [input_cost |-> prompt, output_cost |-> completion],
     capabilities |-> (IF image THEN {"vision", "text"} ELSE {"text"})
                        \cup (IF supports_tools THEN {"function_calling"} ELSE {}),
     is_free |-> (prompt = 0 /\ completion = 0),
     supports_vision |-> image,
     supports_function_calling |-> supports_tools]

\* ModelRegistry.models after a discovery: three vision models, no model of
\* category reasoning
models ==
    ("a" :> parse_model_data("a", "vision", 32, 0, 0, TRUE, FALSE)) @@
    ("b" :> parse_model_data("b", "vision", 32, 2, 3, TRUE, TRUE)) @@
    ("c" :> parse_model_data("c", "vision", 8, 0, 0, TRUE, TRUE))

ModelIds == DOMAIN models

\* the registered models in ascending order of name: sorted(..., key=name)
NameOrder == <<"a", "b", "c">>

\* requirements dictionaries passed by callers
NoRequirements ==
    [vision |-> FALSE, function_calling |-> FALSE,
     min_context_length |-> 0, capabilities |-> {}]

Requirements ==
    {NoRequirements,
     [NoRequirements EXCEPT !.vision = TRUE, !.function_calling = TRUE],
     [NoRequirements EXCEPT !.min_context_length = 16, !.capabilities = {"vision"}]}

FallbackConfig ==
    [strategy |-> "performance",
     max_retries |-> max_retries,
     circuit_breaker_threshold |-> circuit_breaker_threshold,
     circuit_breaker_timeout |-> circuit_breaker_timeout,
     prefer_free_models |-> TRUE,
     exclude_models |-> {}]

SmallFallbackConfig ==
    [strategy |-> "performance",
     max_retries |-> SmallMaxRetries,
     circuit_breaker_threshold |-> SmallThreshold,
     circuit_breaker_timeout |-> SmallTimeout,
     prefer_free_models |-> TRUE,
     exclude_models |-> {}]

SmallFallbackConfigs ==
    [strategy : {"performance", "cost", "reliability", "first"},
     max_retries : {SmallMaxRetries},
     circuit_breaker_threshold : {SmallThreshold},
     circuit_breaker_timeout : {SmallTimeout},
     prefer_free_models : BOOLEAN,
     exclude_models : {{}, {"c"}}]

\* ModelPerformance(model_id): the record of a model without history
ModelPerformance ==
    [total_requests |-> 0, successful_requests |-> 0, failed_requests |-> 0,
     failure_streak |-> 0, circuit_breaker_state |-> "unknown"]

\* get_models_by_category without the free_only filter
get_models_by_category_any_price(category, free_only) ==
    SelectSeq(NameOrder, LAMBDA m : models[m].category = category)

\* get_models_by_category(category, free_only)
get_models_by_category(category, free_only) ==
    SelectSeq(NameOrder, LAMBDA m : /\ models[m].category = category
                                    /\ (free_only => models[m].is_free))

-----------------------------------------------------------------------------
(* CircuitBreaker *)

\* circuit_breakers.get(model_id) is None
NoBreaker ==
    [present |-> FALSE, failure_count |-> 0, last_failure_time |-> 0, state |-> "healthy"]

\* CircuitBreaker(threshold, timeout); threshold and timeout are those of
\* fallback_config, which does not change after construction
CircuitBreaker ==
    [present |-> TRUE, failure_count |-> 0, last_failure_time |-> 0, state |-> "healthy"]

\* can_execute with the probe window opened at the timeout itself
can_execute_at_timeout(b, t) ==
    IF b.state = "failed" /\ t - b.last_failure_time < fallback_config.circuit_breaker_timeout
    THEN [ok |-> FALSE, breaker |-> b]
    ELSE [ok |-> TRUE,
          breaker |-> IF b.state = "failed" THEN [b EXCEPT !.state = "degraded"] ELSE b]

\* can_execute(): the answer and the breaker after the call
can_execute(b, t) ==
    IF b.state = "healthy" THEN [ok |-> TRUE, breaker |-> b]
    ELSE IF b.state = "failed"
         THEN IF t - b.last_failure_time > fallback_config.circuit_breaker_timeout
              THEN [ok |-> TRUE, breaker |-> [b EXCEPT !.state = "degraded"]]
              ELSE [ok |-> FALSE, breaker |-> b]
         ELSE [ok |-> TRUE, breaker |-> b]

\* record_success that only clears the count
record_success_keeps_state(b) == [b EXCEPT !.failure_count = 0]

record_success(b) == [b EXCEPT !.failure_count = 0, !.state = "healthy"]

\* record_failure that never opens the breaker
record_failure_never_fails(b, t) ==
    [b EXCEPT !.failure_count = @ + 1, !.last_failure_time = t, !.state = "degraded"]

record_failure(b, t) ==
    [b EXCEPT !.failure_count = @ + 1,
              !.last_failure_time = t,
              !.state = IF b.failure_count + 1 >= fallback_config.circuit_breaker_threshold
                        THEN "failed" ELSE "degraded"]

\* _is_model_available that refuses a model without breaker
is_model_available_needs_breaker(breakers, m, t) ==
    IF ~breakers[m].present
    THEN [ok |-> FALSE, breaker |-> breakers[m]]
    ELSE can_execute(breakers[m], t)

\* _is_model_available(model_id)
is_model_available(breakers, m, t) ==
    IF ~breakers[m].present
    THEN [ok |-> TRUE, breaker |-> breakers[m]]
    ELSE can_execute(breakers[m], t)

-----------------------------------------------------------------------------
(* ModelManager *)


\* the comparisons of two models below are relations over pairs <<m1, m2>>
ModelPairs == ModelIds \X ModelIds

\* sorted(seq, key=...): stable, before is the strict order of the keys
StableSort(seq, before) ==
    LET n == Len(seq)
        pos(i) == 1 + Cardinality({j \in 1..n :
                          \/ before[<<seq[j], seq[i]>>]
                          \/ (~before[<<seq[i], seq[j]>>] /\ j < i)})
    IN  [p \in 1..n |-> seq[CHOOSE i \in 1..n : pos(i) = p]]

\* a loop keeping the first element that no other element beats
FirstBest(seq, greater) ==
    seq[CHOOSE n \in 1..Len(seq) :
            /\ \A j \in 1..Len(seq) : ~greater[<<seq[j], seq[n]>>]
            /\ \A j \in 1..(n - 1) : greater[<<seq[n], seq[j]>>]]

\* the checks of _filter_by_requirements that do not involve the breaker
meets_requirements(m, requirements) ==
    /\ requirements.vision => models[m].supports_vision
    /\ requirements.function_calling => models[m].supports_function_calling
    /\ models[m].context_length >= requirements.min_context_length
    /\ requirements.capabilities \subseteq models[m].capabilities

\* _filter_by_requirements(candidates, requirements): the models kept
filter_by_requirements(candidates, requirements, breakers, t) ==
    SelectSeq(candidates, LAMBDA m : /\ meets_requirements(m, requirements)
                                     /\ is_model_available(breakers, m, t).ok)

\* the breakers after _filter_by_requirements has consulted them
probed(candidates, requirements, breakers, t) ==
    [m \in DOMAIN breakers |->
        IF m \in {candidates[n] : n \in 1..Len(candidates)} /\ meets_requirements(m, requirements)
        THEN is_model_available(breakers, m, t).breaker
        ELSE breakers[m]]

\* success_rate of m1 is greater than that of m2, both over max(total, 1);
\* avg_response_time stays 0 (response_time is left at its default)
higher_success_rate ==
    [pair \in ModelPairs |->
        LET m1 == pair[1]
            m2 == pair[2]
            max1(n) == IF n > 1 THEN n ELSE 1
        IN  performance[m1].successful_requests * max1(performance[m2].total_requests)
              > performance[m2].successful_requests * max1(performance[m1].total_requests)]

select_by_performance(candidates) == FirstBest(candidates, higher_success_rate)

\* cost_key: (0, 0) for a free model, else (1, input_cost + output_cost)
cheaper ==
    [pair \in ModelPairs |->
        LET m1 == pair[1]
            m2 == pair[2]
            total_cost(m) == models[m].pricing.input_cost + models[m].pricing.output_cost
        IN  \/ models[m1].is_free /\ ~models[m2].is_free
            \/ /\ ~models[m1].is_free /\ ~models[m2].is_free
               /\ total_cost(m1) < total_cost(m2)]

select_by_cost(candidates) == StableSort(candidates, cheaper)[1]

select_by_reliability(candidates) ==
    LET rated == SelectSeq(candidates, LAMBDA m : performance[m].total_requests > 0)
    IN  IF rated = <<>> THEN candidates[1] ELSE FirstBest(rated, higher_success_rate)

\* _apply_selection_strategy(candidates), candidates not empty
apply_selection_strategy(candidates) ==
    IF fallback_config.strategy = "performance" THEN select_by_performance(candidates)
    ELSE IF fallback_config.strategy = "cost" THEN select_by_cost(candidates)
    ELSE IF fallback_config.strategy = "reliability" THEN select_by_reliability(candidates)
    ELSE candidates[1]

\* select_model(category, requirements): the model id returned
select_model(category, requirements, breakers, t) ==
    LET candidates == get_models_by_category(category, fallback_config.prefer_free_models)
        filtered == filter_by_requirements(candidates, requirements, breakers, t)
        remaining == SelectSeq(filtered, LAMBDA m : m \notin fallback_config.exclude_models)
    IN  IF remaining = <<>> THEN NoModel ELSE apply_selection_strategy(remaining)

\* _get_performance_score as a fraction: 1/2 without history, else the
\* success rate
performance_score(m) ==
    IF performance[m].total_requests = 0
    THEN [num |-> 1, den |-> 2]
    ELSE [num |-> performance[m].successful_requests, den |-> performance[m].total_requests]

higher_score ==
    [pair \in ModelPairs |->
        performance_score(pair[1]).num * performance_score(pair[2]).den
          > performance_score(pair[2]).num * performance_score(pair[1]).den]

\* key (not is_free, input_cost)
lower_cost_key ==
    [pair \in ModelPairs |->
        LET m1 == pair[1]
            m2 == pair[2]
        IN  \/ models[m1].is_free /\ ~models[m2].is_free
            \/ /\ models[m1].is_free = models[m2].is_free
               /\ models[m1].pricing.input_cost < models[m2].pricing.input_cost]

\* the candidates of get_fallback_models that also list the primary model
fallback_candidates_with_primary(filtered, primary_model, breakers, t) ==
    SelectSeq(filtered, LAMBDA m : /\ m \notin fallback_config.exclude_models
                                   /\ is_model_available(breakers, m, t).ok)

\* get_fallback_models: the filtered candidates without the primary model,
\* the excluded models and the unavailable ones
fallback_candidates(filtered, primary_model, breakers, t) ==
    SelectSeq(filtered, LAMBDA m : /\ m # primary_model
                                   /\ m \notin fallback_config.exclude_models
                                   /\ is_model_available(breakers, m, t).ok)

\* get_fallback_models(primary_model, category, requirements): the list returned
get_fallback_models(primary_model, category, requirements, breakers, t) ==
    LET all == get_models_by_category(category, FALSE)
        filtered == filter_by_requirements(all, requirements, breakers, t)
        candidates == fallback_candidates(filtered, primary_model,
                                          probed(all, requirements, breakers, t), t)
        sorted_candidates ==
            IF fallback_config.strategy = "performance"
            THEN StableSort(candidates, higher_score)
            ELSE IF fallback_config.strategy = "cost"
                 THEN StableSort(candidates, lower_cost_key)
                 ELSE candidates
        n == IF Len(sorted_candidates) < fallback_config.max_retries
             THEN Len(sorted_candidates) ELSE fallback_config.max_retries
    IN  SubSeq(sorted_candidates, 1, n)

RECURSIVE recorded_requests(_)
\* the requests recorded so far for the models of S
recorded_requests(S) ==
    IF S = {} THEN 0
    ELSE LET m == CHOOSE x \in S : TRUE
         IN  performance[m].total_requests + recorded_requests(S \ {m})

Reply(op, ok, m, chain) == [op |-> op, ok |-> ok, model |-> m, chain |-> chain]

\* record_model_usage(model_id, success)
RecordModelUsage(m, success) ==
    /\ IF success
       THEN /\ performance' = [performance EXCEPT
                   ![m].total_requests = @ + 1,
                   ![m].successful_requests = @ + 1,
                   ![m].failure_streak = 0]
            /\ circuit_breakers' = [circuit_breakers EXCEPT
                   ![m] = IF @.present THEN record_success(@) ELSE @]
       ELSE LET breaker == IF circuit_breakers[m].present
                           THEN circuit_breakers[m] ELSE CircuitBreaker
                failed == record_failure(breaker, now)
            IN  /\ circuit_breakers' = [circuit_breakers EXCEPT ![m] = failed]
                /\ performance' = [performance EXCEPT
                       ![m].total_requests = @ + 1,
                       ![m].failed_requests = @ + 1,
                       ![m].failure_streak = @ + 1,
                       ![m].circuit_breaker_state = failed.state]
    /\ reply' = Reply("record_model_usage", success, m, <<>>)
    /\ UNCHANGED <<now, fallback_config>>
    /\ UNCHANGED <<keyVars, kmVars, discVars, clientVars, gatewayVars>>

\* _is_model_available(model_id)
IsModelAvailable(m) ==
    /\ circuit_breakers' = [circuit_breakers EXCEPT
           ![m] = is_model_available(circuit_breakers, m, now).breaker]
    /\ reply' = Reply("is_model_available",
                      is_model_available(circuit_breakers, m, now).ok, m, <<>>)
    /\ UNCHANGED <<now, performance, fallback_config>>
    /\ UNCHANGED <<keyVars, kmVars, discVars, clientVars, gatewayVars>>

\* select_model(category, requirements)
SelectModel(category, requirements) ==
    /\ circuit_breakers' =
           probed(get_models_by_category(category, fallback_config.prefer_free_models),
                  requirements, circuit_breakers, now)
    /\ LET selected == select_model(category, requirements, circuit_breakers, now)
       IN  reply' = Reply("select_model", selected # NoModel, selected, <<>>)
    /\ UNCHANGED <<now, performance, fallback_config>>
    /\ UNCHANGED <<keyVars, kmVars, discVars, clientVars, gatewayVars>>

\* get_fallback_models(primary_model, category, requirements); the reply
\* keeps the primary model next to the list returned
GetFallbackModels(primary_model, category, requirements) ==
    /\ circuit_breakers' =
           probed(get_models_by_category(category, FALSE),
                  requirements, circuit_breakers, now)
    /\ reply' = Reply("get_fallback_models", TRUE, primary_model,
                      get_fallback_models(primary_model, category, requirements,
                                          circuit_breakers, now))
    /\ UNCHANGED <<now, performance, fallback_config>>
    /\ UNCHANGED <<keyVars, kmVars, discVars, clientVars, gatewayVars>>

-----------------------------------------------------------------------------
(* Model discovery: ModelRegistry.discover_models (pie-extractor) and       *)
(* ModelManager.fetch_models (openrouter_manager)                           *)

\* the clock of the discovery specifications moves in steps of this many
\* seconds, up to the horizon
DiscoveryStep == 1800
DiscoveryHorizon == 9000
MaxFetches == 3

\* ModelRegistry.cache_ttl and ModelManager.CACHE_TTL, in seconds
cache_ttl == 3600
CACHE_TTL == 3600

\* a model id with no entry in a cache; an entry holds the revision of the
\* listing it was parsed from
NotCached == 0

\* one entry of the "data" list of GET /models; parses is FALSE for an entry
\* _parse_model_data raises on (a price float() rejects) and, for
\* fetch_models, for an entry without "id"
CatalogEntries == [id : {"a", "c"}, rev : {1, 2}, parses : BOOLEAN]

\* listings of up to two models
Listings ==
    {<<>>} \cup {<<e>> : e \in CatalogEntries}
    \cup {<<e1, e2>> : e1 \in {e \in CatalogEntries : e.id = "a"},
                       e2 \in {e \in CatalogEntries : e.id = "c"}}

\* what the catalog endpoint answers: an error (connection, timeout, bad
\* status), a body without "data", or a listing
CatalogResponses ==
    {[kind |-> "error", data |-> <<>>], [kind |-> "no_data", data |-> <<>>]}
    \cup {[kind |-> "data", data |-> l] : l \in Listings}

\* the answers in which every entry is of the first revision and parses
PlainResponses ==
    {r \in CatalogResponses :
        \A n \in 1..Len(r.data) : r.data[n].rev = 1 /\ r.data[n].parses}

\* the cache check read the wrong way round
cache_is_valid_when_stale(force_refresh, last, t, ttl) ==
    ~force_refresh /\ (t - last) >= ttl

\* not force_refresh and (current_time - last) < ttl
cache_is_valid(force_refresh, last, t, ttl) ==
    ~force_refresh /\ (t - last) < ttl

RECURSIVE parsed_prefix(_)
\* the entries of the listing the loop of discover_models handles before
\* _parse_model_data raises
parsed_prefix(data) ==
    IF data = <<>> \/ ~Head(data).parses THEN <<>>
    ELSE <<Head(data)>> \o parsed_prefix(Tail(data))

RECURSIVE upsert_models(_, _)
\* self.models[model_id] = model_info for each entry in turn
upsert_models(cached, data) ==
    IF data = <<>> THEN cached
    ELSE upsert_models([cached EXCEPT ![Head(data).id] = Head(data).rev], Tail(data))

all_parse(data) == \A n \in 1..Len(data) : data[n].parses

\* {model["id"]: model for model in data}: a new dictionary
models_by_id(data) ==
    upsert_models([m \in ModelIds |-> NotCached], data)

is_empty(cached) == \A m \in ModelIds : cached[m] = NotCached

\* the outcome of a discovery call, with the outcome of the call before it
DiscReply(op, force_refresh, fetched, failed, ok, raised, was_empty, cached) ==
    [op |-> op, force_refresh |-> force_refresh, fetched |-> fetched,
     failed |-> failed, ok |-> ok, raised |-> raised, was_empty |-> was_empty,
     cached |-> cached, time |-> now,
     prev |-> [op |-> disc_reply.op, force_refresh |-> disc_reply.force_refresh,
               fetched |-> disc_reply.fetched, ok |-> disc_reply.ok,
               cached |-> disc_reply.cached, time |-> disc_reply.time]]

\* ModelRegistry.discover_models(force_refresh).  Every exception is caught
\* and answered with False; models parsed before the exception stay in
\* self.models.  performance gets an entry for each new model, which is the
\* record a model without history has.
DiscoverModels(force_refresh, response) ==
    /\ IF cache_is_valid(force_refresh, last_discovery, now, cache_ttl)
       THEN /\ disc_reply' = DiscReply("discover_models", force_refresh, FALSE, FALSE,
                                       FALSE, FALSE, is_empty(registry_models),
                                       ~is_empty(registry_models))
            /\ UNCHANGED <<registry_models, last_discovery, fetches>>
       ELSE LET complete == response.kind = "data" /\ all_parse(response.data)
                handled == IF response.kind = "data"
                           THEN parsed_prefix(response.data) ELSE <<>>
            IN  /\ fetches' = [fetches EXCEPT !.registry = @ + 1]
                /\ registry_models' = upsert_models(registry_models, handled)
                /\ last_discovery' = IF complete THEN now ELSE last_discovery
                /\ disc_reply' = DiscReply("discover_models", force_refresh, TRUE,
                                           ~complete, complete, FALSE,
                                           is_empty(registry_models),
                                           ~is_empty(registry_models'))
    /\ UNCHANGED <<now, models_cache, last_fetch_time>>
    /\ UNCHANGED <<keyVars, modelVars, kmVars, clientVars, gatewayVars>>

\* the cache and timestamp fetch_models leaves, and how it ends
fetch_models(force_refresh, response, cached, last, t) ==
    IF ~is_empty(cached) /\ cache_is_valid(force_refresh, last, t, CACHE_TTL)
    THEN [fetched |-> FALSE, failed |-> FALSE, raised |-> FALSE,
          cache |-> cached, last |-> last]
    ELSE IF response.kind = "error"
            \/ (response.kind = "data" /\ ~all_parse(response.data))
    THEN [fetched |-> TRUE, failed |-> TRUE, raised |-> is_empty(cached),
          cache |-> cached, last |-> last]
    ELSE [fetched |-> TRUE, failed |-> FALSE, raised |-> FALSE,
          cache |-> models_by_id(response.data), last |-> t]

\* ModelManager.fetch_models(force_refresh)
FetchModels(force_refresh, response) ==
    LET f == fetch_models(force_refresh, response, models_cache, last_fetch_time, now)
    IN  /\ models_cache' = f.cache
        /\ last_fetch_time' = f.last
        /\ fetches' = [fetches EXCEPT !.manager = @ + (IF f.fetched THEN 1 ELSE 0)]
        /\ disc_reply' = DiscReply("fetch_models", force_refresh, f.fetched, f.failed,
                                   f.fetched /\ ~f.failed, f.raised,
                                   is_empty(models_cache), ~is_empty(f.cache))
        /\ UNCHANGED <<now, registry_models, last_discovery>>
        /\ UNCHANGED <<keyVars, modelVars, kmVars, clientVars, gatewayVars>>

\* time passes between discovery calls
Elapse(step, horizon) ==
    /\ now + step <= horizon
    /\ now' = now + step
    /\ UNCHANGED <<keyVars, modelVars, kmVars, discVars, clientVars, gatewayVars>>

-----------------------------------------------------------------------------
(* OpenRouterClient, src/openrouter_manager/client.py *)

\* bounds of the client part: the client's max_retries and timeout
SmallClientRetries == 1
SmallClientTimeout == 2

\* _make_request: retry_delay = 1, max_retry_delay = 60; Retry(backoff_factor=1)
initial_retry_delay == 1
max_retry_delay == 60
backoff_factor == 1

\* the statuses the session's Retry adapter sends again (status_forcelist)
\* and the statuses _make_request sends again
status_forcelist == {408, 429, 500, 502, 503, 504}
retried_statuses == {429, 500, 502, 503, 504}

NoAnswer ==
    [kind |-> "", status |-> 0, has_retry_after |-> FALSE, retry_after |-> 0]

\* what upstream does with one completion request: a response, a connection
\* error, or no response within the timeout
Answers ==
    {[NoAnswer EXCEPT !.kind = "ok", !.status = 200]}
    \cup {[NoAnswer EXCEPT !.kind = "status", !.status = s] : s \in {400, 408, 503}}
    \cup {[NoAnswer EXCEPT !.kind = "status", !.status = 429,
                           !.has_retry_after = TRUE, !.retry_after = r] :
             r \in {5, 61}}
    \cup {[NoAnswer EXCEPT !.kind = k] : k \in {"connection", "timeout"}}

\* how upstream treats the requests for one model during a call: it gives
\* the same failing answer a number of times, then it completes them
UpstreamPlans ==
    [fails : {a \in Answers : a.kind # "ok"},
     times : 0..((SmallClientRetries + 1) * (SmallClientRetries + 1))]

\* the answer to the request that follows `count` earlier ones
answer_to(plan, count) ==
    IF count < plan.times THEN plan.fails
    ELSE [NoAnswer EXCEPT !.kind = "ok", !.status = 200]

Min(x, y) == IF x <= y THEN x ELSE y

\* the client as constructed: OpenRouterClient(api_key, timeout, max_retries)

\* HTTPAdapter(max_retries=Retry(total=max_retries, status_forcelist=...,
\* allowed_methods incl. POST, raise_on_status=False)): session.request
\* sends the request again by itself after these answers, while retries remain
adapter_retries(answer, adapter_sends) ==
    /\ adapter_sends < client.max_retries
    /\ \/ answer.kind \in {"connection", "timeout"}
       \/ answer.kind = "status" /\ answer.status \in status_forcelist

\* what the adapter sleeps before its n-th retry: the Retry-After header
\* (respect_retry_after_header=True), else backoff_factor * 2^(n-1), nothing
\* before the first
adapter_sleep(answer, n) ==
    IF answer.has_retry_after THEN answer.retry_after
    ELSE IF n <= 1 THEN 0
    ELSE backoff_factor * 2^(n - 1)

\* wait_time taken from the backoff delay alone
wait_time_without_hint(answer, retry_delay) ==
    Min(retry_delay, max_retry_delay)

\* wait_time = min(int(headers.get('Retry-After', retry_delay)), max_retry_delay)
wait_time(answer, retry_delay) ==
    Min(IF answer.has_retry_after THEN answer.retry_after ELSE retry_delay,
        max_retry_delay)

\* _make_request goes round its loop again
make_request_retries(answer, attempt) ==
    /\ attempt < client.max_retries
    /\ \/ answer.kind \in {"connection", "timeout"}
       \/ answer.kind = "status" /\ answer.status \in retried_statuses

\* what _make_request sleeps before going round again
make_request_sleep(answer, retry_delay) ==
    IF answer.kind = "status" THEN wait_time(answer, retry_delay) ELSE retry_delay

\* the message of the OpenRouterError _make_request raises
error_of(answer) ==
    IF answer.kind = "status"
    THEN IF answer.status = 400 THEN "status 400"
         ELSE IF answer.status = 408 THEN "status 408"
         ELSE IF answer.status = 429 THEN "status 429"
         ELSE "status 503"
    ELSE "Connection failed"

\* ModelManager.PREFERRED_MODELS; of the preferred models upstream lists a
\* at most
PREFERRED_MODELS ==
    [vision |-> <<"a", "v2", "v3">>, reasoning |-> <<"r1", "r2", "r3">>]

\* what the listing says of a model: the categories whose keywords its name
\* and description contain, its prompt price, its context length
model_info ==
    [m \in ModelIds |->
        [categories |-> {models[m].category},
         prompt |-> models[m].pricing.input_cost,
         context_length |-> models[m].context_length]]

cached_ids(cached) == {m \in ModelIds : cached[m] # NotCached}

\* ModelManager.get_models_by_category: free models matching the category,
\* longest context first (a stable sort of the cache's order)
longer_context ==
    [p \in ModelPairs |->
        model_info[p[1]].context_length > model_info[p[2]].context_length]

free_models_by_category(category, cached) ==
    StableSort(SelectSeq(NameOrder,
                         LAMBDA m : /\ m \in cached_ids(cached)
                                    /\ model_info[m].prompt <= 0
                                    /\ category \in model_info[m].categories),
               longer_context)

\* ModelManager.get_model_fallback_chain(category) over the cache
get_model_fallback_chain(category, cached) ==
    LET preferred == PREFERRED_MODELS[category]
        is_preferred(m) == \E n \in 1..Len(preferred) : preferred[n] = m
    IN  SelectSeq(preferred, LAMBDA m : m \in cached_ids(cached))
        \o SelectSeq(free_models_by_category(category, cached),
                     LAMBDA m : ~is_preferred(m) /\ model_info[m].prompt = 0)

\* a request that raises whatever the answer
is_success_never(answer) == FALSE

\* _make_request returns response.json(): the request did not raise
is_success(answer) == answer.kind = "ok"

NoErrors == [m \in ModelIds |-> ""]

IdleCall ==
    [pc |-> "idle", models_to_try |-> <<>>, upstream |-> <<>>, index |-> 0, attempt |-> 0,
     retry_delay |-> initial_retry_delay, adapter_sends |-> 0, started |-> 0,
     last_error |-> ""]

NothingSent ==
    [count |-> [m \in ModelIds |-> 0],
     last |-> [model |-> NoModel, answer |-> NoAnswer, time |-> 0],
     errors |-> NoErrors]

\* what chat_completion returned (kind "ok") or raised
Result(kind, m, message, errors) ==
    [kind |-> kind, model |-> m, message |-> message, errors |-> errors]

NoResult == Result("", NoModel, "", NoErrors)

\* chat_completion(messages, model, model_category) up to its first request:
\* the list of models to try, from the model given or from the category's
\* chain (which refreshes the model cache when it is stale)
ChatCompletion(model, model_category, response, plans) ==
    /\ call.pc = "idle"
    /\ LET f == IF model # NoModel
                THEN [fetched |-> FALSE, failed |-> FALSE, raised |-> FALSE,
                      cache |-> models_cache, last |-> last_fetch_time]
                ELSE fetch_models(FALSE, response, models_cache, last_fetch_time, now)
           models_to_try == IF model # NoModel THEN <<model>>
                            ELSE get_model_fallback_chain(model_category, f.cache)
       IN  /\ models_cache' = f.cache
           /\ last_fetch_time' = f.last
           /\ fetches' = [fetches EXCEPT !.manager = @ + (IF f.fetched THEN 1 ELSE 0)]
           /\ disc_reply' =
                IF model # NoModel THEN disc_reply
                ELSE DiscReply("fetch_models", FALSE, f.fetched, f.failed,
                               f.fetched /\ ~f.failed, f.raised,
                               is_empty(models_cache), ~is_empty(f.cache))
           /\ sent' = NothingSent
           /\ IF f.raised
              THEN /\ result' = Result("RuntimeError", NoModel,
                                       "No cached models available", NoErrors)
                   /\ call' = IdleCall
              ELSE IF models_to_try = <<>>
              THEN /\ result' = Result("OpenRouterError", NoModel,
                                       "No available models found", NoErrors)
                   /\ call' = IdleCall
              ELSE /\ result' = NoResult
                   /\ call' = [IdleCall EXCEPT !.pc = "send",
                                               !.models_to_try = models_to_try,
                                               !.upstream =
                                                   SubSeq(plans, 1, Len(models_to_try)),
                                               !.index = 1,
                                               !.started = now]
    /\ UNCHANGED <<now, client, registry_models, last_discovery>>
    /\ UNCHANGED <<keyVars, modelVars, kmVars, gatewayVars>>

\* One completion request goes upstream for the model being tried and is
\* answered.  The adapter may send it again, _make_request may go round its
\* loop again, or _make_request raises and chat_completion goes on to the
\* next model or gives up.
Dispatch ==
    /\ call.pc = "send"
    /\ LET m == call.models_to_try[call.index]
           answer == answer_to(call.upstream[call.index], sent.count[m])
           arrived == now + (IF answer.kind = "timeout" THEN client.timeout ELSE 0)
           count == [sent.count EXCEPT ![m] = @ + 1]
           last == [model |-> m, answer |-> answer, time |-> arrived]
       IN  IF is_success(answer)
           THEN /\ now' = arrived
                /\ call' = IdleCall
                /\ sent' = [sent EXCEPT !.count = count, !.last = last]
                /\ result' = Result("ok", m, "", NoErrors)
           ELSE IF adapter_retries(answer, call.adapter_sends)
           THEN /\ now' = arrived + adapter_sleep(answer, call.adapter_sends + 1)
                /\ call' = [call EXCEPT !.adapter_sends = @ + 1]
                /\ sent' = [sent EXCEPT !.count = count, !.last = last]
                /\ UNCHANGED result
           ELSE IF make_request_retries(answer, call.attempt)
           THEN /\ now' = arrived + make_request_sleep(answer, call.retry_delay)
                /\ call' = [call EXCEPT !.attempt = @ + 1,
                                        !.retry_delay = Min(@ * 2, max_retry_delay),
                                        !.adapter_sends = 0]
                /\ sent' = [sent EXCEPT !.count = count, !.last = last]
                /\ UNCHANGED result
           ELSE /\ now' = arrived
                /\ sent' = [count |-> count,
                            last |-> IF call.index < Len(call.models_to_try)
                                     THEN NothingSent.last ELSE last,
                            errors |-> [sent.errors EXCEPT ![m] = error_of(answer)]]
                /\ IF call.index < Len(call.models_to_try)
                   THEN /\ call' = [call EXCEPT !.index = @ + 1,
                                                !.attempt = 0,
                                                !.retry_delay = initial_retry_delay,
                                                !.adapter_sends = 0,
                                                !.last_error = error_of(answer)]
                        /\ UNCHANGED result
                   ELSE /\ call' = IdleCall
                        /\ result' = Result("OpenRouterError", NoModel,
                                            "All model attempts failed",
                                            [NoErrors EXCEPT ![m] = error_of(answer)])
    /\ UNCHANGED <<client, discVars>>
    /\ UNCHANGED <<keyVars, modelVars, kmVars, gatewayVars>>

-----------------------------------------------------------------------------
(* DocumentExtractor.process_with_reasoning_model,                          *)
(* src/pie-extractor/enhanced_extractor.py                                  *)

\* DocumentExtractionConfig.reasoning_model: a model id of the
\* configuration, which the registry need not hold
reasoning_model == "r"

\* the model ids usage is recorded for
TrackedModels == ModelIds \cup {reasoning_model}

\* one request sent upstream: the model, the credential, the time
Attempt(m, k, t) == [model |-> m, key |-> k, time |-> t]

\* the extraction request of a gateway: the model selected, the fallback
\* models (known once the selected model has failed), the attempt in flight
\* (0 for the selected model, n for the n-th fallback model), the requests
\* sent upstream, the request count of the credential when the request
\* began, the recorded outcome of the attempt and the outcome of the request
NoExtraction ==
    [model |-> NoModel, fallback_models |-> <<>>, index |-> 0, dispatches |-> <<>>,
     usage_at_start |-> 0, answered |-> "", outcome |-> ""]

\* process_with_reasoning_model(text_blocks): select a reasoning model, or
\* take the configured one when none is selected; wait_for_rate_limit (which
\* may raise RateLimitError); build the structured result; record the usage
\* of the model and of the key
ProcessWithReasoningModel(i) ==
    /\ pc[i] = "idle"
    /\ LET selected == select_model("reasoning", NoRequirements, circuit_breakers, now)
           used == IF selected = NoModel THEN reasoning_model ELSE selected
           probes == probed(get_models_by_category("reasoning",
                                                   fallback_config.prefer_free_models),
                            NoRequirements, circuit_breakers, now)
           r == can_make_request(current_key[i], now)
       IN  IF r.ok \/ r.reason = "Rate limit: wait"
           THEN /\ now' = IF r.ok THEN now ELSE now + parse_wait(r.wait)
                /\ performance' = [performance EXCEPT
                       ![used].total_requests = @ + 1,
                       ![used].successful_requests = @ + 1,
                       ![used].failure_streak = 0]
                /\ circuit_breakers' = [probes EXCEPT
                       ![used] = IF @.present THEN record_success(@) ELSE @]
                /\ current_key' = [current_key EXCEPT ![i] = recorded(@, now')]
                /\ api_keys' = UpdateUsage(api_keys, current_key'[i])
                /\ ret' = [op |-> "record_request", ok |-> TRUE]
                /\ reply' = Reply("process_with_reasoning_model", TRUE, used, <<>>)
                /\ extraction' =
                      [NoExtraction EXCEPT
                          !.model = used,
                          !.dispatches = <<Attempt(used, current_key[i].key_id, now')>>,
                          !.usage_at_start = current_key[i].daily_requests,
                          !.answered = "ok",
                          !.outcome = "ok"]
           ELSE /\ circuit_breakers' = probes
                /\ ret' = [op |-> "wait_for_rate_limit", ok |-> FALSE]
                /\ reply' = Reply("process_with_reasoning_model", FALSE, used, <<>>)
                /\ extraction' = [NoExtraction EXCEPT !.outcome = "RateLimitError"]
                /\ UNCHANGED <<now, performance, current_key, api_keys>>
    /\ UNCHANGED <<config, instance_mappings, pc, stats, fallback_config>>
    /\ UNCHANGED <<kmVars, discVars, clientVars>>

-----------------------------------------------------------------------------
(* DocumentExtractor.extract_with_vision_model,                             *)
(* src/pie-extractor/enhanced_extractor.py                                  *)

\* requests the gateway specification records at most
MaxGatewayRequests == 4

\* requirements={"vision": True}
VisionRequirements == [NoRequirements EXCEPT !.vision = TRUE]

\* the model of the attempt in flight
attempted_model(e) ==
    IF e.index = 0 THEN e.model ELSE e.fallback_models[e.index]

\* record_model_usage that takes no note of a failure
performance_after_success_only(perf, m, success, breaker_state) ==
    IF success
    THEN [perf EXCEPT ![m].total_requests = @ + 1,
                      ![m].successful_requests = @ + 1,
                      ![m].failure_streak = 0]
    ELSE perf

\* ModelRegistry.performance after record_model_usage(m, success)
performance_after(perf, m, success, breaker_state) ==
    IF success
    THEN [perf EXCEPT ![m].total_requests = @ + 1,
                      ![m].successful_requests = @ + 1,
                      ![m].failure_streak = 0]
    ELSE [perf EXCEPT ![m].total_requests = @ + 1,
                      ![m].failed_requests = @ + 1,
                      ![m].failure_streak = @ + 1,
                      ![m].circuit_breaker_state = breaker_state]

\* ModelManager.circuit_breakers after record_model_usage(m, success) at t
breakers_after(breakers, m, success, t) ==
    IF success
    THEN [breakers EXCEPT ![m] = IF @.present THEN record_success(@) ELSE @]
    ELSE [breakers EXCEPT
             ![m] = record_failure(IF @.present THEN @ ELSE CircuitBreaker, t)]

\* rate_manager.record_request called after every attempt
records_request_every_attempt(index) == TRUE

\* rate_manager.record_request is called after the attempt with the selected
\* model, whatever its outcome, and not after the attempts with fallback models
records_request(index) == index = 0

\* extract_with_vision_model(image_path) up to its first upstream call:
\* select_model (ValueError without a model), wait_for_rate_limit (which may
\* sleep or raise RateLimitError), then the request for the selected model
StartExtraction(i) ==
    /\ pc[i] = "idle"
    /\ LET vision_model == select_model("vision", VisionRequirements,
                                        circuit_breakers, now)
           r == can_make_request(current_key[i], now)
       IN  /\ circuit_breakers' =
                 probed(get_models_by_category("vision",
                                               fallback_config.prefer_free_models),
                        VisionRequirements, circuit_breakers, now)
           /\ reply' = Reply("select_model", vision_model # NoModel, vision_model, <<>>)
           /\ IF vision_model = NoModel
              THEN /\ extraction' = [NoExtraction EXCEPT !.outcome = "ValueError"]
                   /\ UNCHANGED <<now, pc, ret>>
              ELSE IF r.ok \/ r.reason = "Rate limit: wait"
              THEN /\ now' = IF r.ok THEN now ELSE now + parse_wait(r.wait)
                   /\ pc' = [pc EXCEPT ![i] = "extracting"]
                   /\ ret' = [op |-> "wait_for_rate_limit", ok |-> TRUE]
                   /\ extraction' =
                         [NoExtraction EXCEPT
                             !.model = vision_model,
                             !.dispatches =
                                 <<Attempt(vision_model, current_key[i].key_id, now')>>,
                             !.usage_at_start = current_key[i].daily_requests]
              ELSE /\ ret' = [op |-> "wait_for_rate_limit", ok |-> FALSE]
                   /\ extraction' = [NoExtraction EXCEPT !.outcome = "RateLimitError"]
                   /\ UNCHANGED <<now, pc>>
    /\ UNCHANGED <<config, api_keys, instance_mappings, current_key, stats>>
    /\ UNCHANGED <<performance, fallback_config>>
    /\ UNCHANGED <<kmVars, discVars, clientVars>>

\* The upstream call of the attempt in flight returns (success) or raises,
\* after `duration` seconds: record_model_usage for the model and, for the
\* selected model, rate_manager.record_request
UpstreamAnswers(i, success, duration) ==
    /\ pc[i] = "extracting"
    /\ extraction.answered = ""
    /\ now' = now + duration
    /\ LET m == attempted_model(extraction)
           breakers == breakers_after(circuit_breakers, m, success, now')
       IN  /\ circuit_breakers' = breakers
           /\ performance' = performance_after(performance, m, success,
                                               breakers[m].state)
           /\ reply' = Reply("record_model_usage", success, m, <<>>)
    /\ IF records_request(extraction.index)
       THEN /\ current_key' = [current_key EXCEPT ![i] = recorded(@, now')]
            /\ api_keys' = UpdateUsage(api_keys, current_key'[i])
            /\ ret' = [op |-> "record_request", ok |-> TRUE]
       ELSE UNCHANGED <<current_key, api_keys, ret>>
    /\ extraction' = [extraction EXCEPT
                         !.answered = IF success THEN "ok" ELSE "failed"]
    /\ UNCHANGED <<config, instance_mappings, pc, stats, fallback_config>>
    /\ UNCHANGED <<kmVars, discVars, clientVars>>

\* After the records: a success ends the request; after a failure of the
\* selected model get_fallback_models is asked for the models to try, and
\* the next of them is sent the request at once; when none is left the
\* error of the selected model is raised
ContinueExtraction(i) ==
    /\ pc[i] = "extracting"
    /\ extraction.answered # ""
    /\ LET fallback_models ==
               IF extraction.index = 0
               THEN get_fallback_models(extraction.model, "vision",
                                        VisionRequirements, circuit_breakers, now)
               ELSE extraction.fallback_models
           asked == extraction.answered = "failed" /\ extraction.index = 0
       IN  /\ circuit_breakers' =
                 IF asked
                 THEN probed(get_models_by_category("vision", FALSE),
                             VisionRequirements, circuit_breakers, now)
                 ELSE circuit_breakers
           /\ reply' = IF asked
                       THEN Reply("get_fallback_models", TRUE, extraction.model,
                                  fallback_models)
                       ELSE reply
           /\ IF extraction.answered = "ok"
              THEN /\ extraction' = [extraction EXCEPT !.outcome = "ok"]
                   /\ pc' = [pc EXCEPT ![i] = "idle"]
              ELSE IF extraction.index < Len(fallback_models)
              THEN /\ extraction' =
                         [extraction EXCEPT
                             !.fallback_models = fallback_models,
                             !.index = @ + 1,
                             !.answered = "",
                             !.dispatches =
                                 Append(@, Attempt(fallback_models[extraction.index + 1],
                                                   current_key[i].key_id, now))]
                   /\ UNCHANGED pc
              ELSE /\ extraction' = [extraction EXCEPT
                                        !.fallback_models = fallback_models,
                                        !.outcome = "error"]
                   /\ pc' = [pc EXCEPT ![i] = "idle"]
    /\ UNCHANGED <<now, config, api_keys, instance_mappings, current_key, stats, ret>>
    /\ UNCHANGED <<performance, fallback_config>>
    /\ UNCHANGED <<kmVars, discVars, clientVars>>

-----------------------------------------------------------------------------
(* Specifications *)

NoRet == [op |-> "", ok |-> TRUE]

NoKmReply == KmReply("", NoInstance, NoKey)

\* a new ModelRegistry over an empty database and a new ModelManager of
\* openrouter_manager: nothing cached, nothing fetched
NoDiscReply ==
    [op |-> "", force_refresh |-> FALSE, fetched |-> FALSE, failed |-> FALSE,
     ok |-> FALSE, raised |-> FALSE, was_empty |-> TRUE, cached |-> FALSE,
     time |-> 0,
     prev |-> [op |-> "", force_refresh |-> FALSE, fetched |-> FALSE, ok |-> FALSE,
               cached |-> FALSE, time |-> 0]]

InitDiscovery ==
    /\ registry_models = [m \in ModelIds |-> NotCached]
    /\ last_discovery = 0
    /\ models_cache = [m \in ModelIds |-> NotCached]
    /\ last_fetch_time = 0
    /\ fetches = [registry |-> 0, manager |-> 0]
    /\ disc_reply = NoDiscReply

\* DocumentExtractor with no extraction made
InitGateway == extraction = NoExtraction

\* OpenRouterClient(api_key, timeout, max_retries) with no call made
InitClient ==
    /\ client = [timeout |-> SmallClientTimeout, max_retries |-> SmallClientRetries]
    /\ call = IdleCall
    /\ sent = NothingSent
    /\ result = NoResult

\* KeyManager over a new database
InitKeyManager ==
    /\ km_api_keys = [k \in Keys |-> NoKeyRow]
    /\ key_usage = [k \in Keys |-> [present |-> FALSE, request_count |-> 0]]
    /\ instances = <<>>
    /\ km_reply = NoKmReply

\* the store before any secret is registered, no manager constructed
InitPool(cfg) ==
    /\ config = cfg
    /\ api_keys = [k \in Keys |-> AbsentRow]
    /\ instance_mappings = <<>>
    /\ current_key = [i \in Instances |-> NoKeyInfo]
    /\ pc = [i \in Instances |-> "new"]
    /\ stats = [i \in Instances |-> [attempts |-> 0, dispatches |-> 0, switches |-> 0]]
    /\ ret = NoRet
    /\ InitKeyManager
    /\ InitDiscovery
    /\ InitClient
    /\ InitGateway

InitKeys(cfg) ==
    /\ now = cfg.min_request_interval
    /\ InitPool(cfg)


\* ModelManager(registry, fallback_config) over a registry without history
InitModels(fc) ==
    /\ performance = [m \in TrackedModels |-> ModelPerformance]
    /\ circuit_breakers = [m \in TrackedModels |-> NoBreaker]
    /\ fallback_config = fc
    /\ reply = Reply("", TRUE, NoModel, <<>>)

Init == InitKeys(SmallConfig) /\ InitModels(FallbackConfig)

\* one instance uses the pool, single-threaded
Next ==
    \/ \E k \in Keys : AddApiKey(k, KeyTier[k])
    \/ \E i \in Single : Construct(i)
    \/ \E i \in Single : WaitForRateLimit(i, MaxTime, FALSE)
    \/ \E i \in Single : RecordRequest(i)
    \/ \E i \in Single : SwitchKey(i, FALSE)
    \/ Tick(MaxTime)

Spec == Init /\ [][Next]_vars

\* several instances share the store
NextPool ==
    \/ \E k \in Keys : AddApiKey(k, KeyTier[k])
    \/ \E i \in Instances : Construct(i)
    \/ \E i \in Instances : WaitForRateLimit(i, MaxTime, FALSE)
    \/ \E i \in Instances : RecordRequest(i)
    \/ \E i \in Instances : SwitchKey(i, FALSE)
    \/ Tick(MaxTime)

SpecPool == Init /\ [][NextPool]_vars

\* several instances share the store and keep the credential they were
\* given; each credential is registered once and the requests are counted
NextShared ==
    \/ \E k \in Keys : ~api_keys[k].present /\ AddApiKey(k, KeyTier[k])
    \/ \E i \in Instances : Construct(i)
    \/ \E i \in Instances :
           /\ stats[i].attempts < MaxSharedRequests
           /\ WaitForRateLimit(i, MaxTime, TRUE)
    \/ \E i \in Instances : RecordRequest(i)
    \/ Tick(MaxTime)

SpecShared == Init /\ [][NextShared]_vars

\* KeyManager serving several instances
NextKeyManager ==
    \/ \E k \in Keys : KmAddApiKey(k, SmallDailyLimit)
    \/ \E i \in Instances, threshold \in {0, SmallRotateThreshold} :
           /\ \A k \in Keys : request_count(k) < MaxUsage
           /\ GetInstanceKey(i, threshold)
    \/ \E k \in Keys :
           /\ request_count(k) < MaxUsage
           /\ KmRecordRequest(k)

SpecKeyManager == Init /\ [][NextKeyManager]_vars

\* a deployment keeps its assignments with one of the two key managers
APIKeyManagerUnused ==
    /\ api_keys = [k \in Keys |-> AbsentRow]
    /\ pc = [i \in Instances |-> "new"]
    /\ ret = NoRet

KeyManagerUnused ==
    /\ km_api_keys = [k \in Keys |-> NoKeyRow]
    /\ km_reply = NoKmReply

NextAssignments ==
    \/ \E k \in Keys : KeyManagerUnused /\ AddApiKey(k, KeyTier[k])
    \/ \E i \in Instances : KeyManagerUnused /\ Construct(i)
    \/ \E i \in Instances : KeyManagerUnused /\ WaitForRateLimit(i, MaxTime, FALSE)
    \/ \E i \in Instances : KeyManagerUnused /\ RecordRequest(i)
    \/ \E i \in Instances : KeyManagerUnused /\ SwitchKey(i, FALSE)
    \/ KeyManagerUnused /\ Tick(MaxTime)
    \/ \E k \in Keys : APIKeyManagerUnused /\ KmAddApiKey(k, SmallDailyLimit)
    \/ \E i \in Instances, threshold \in {0, SmallRotateThreshold} :
           /\ APIKeyManagerUnused
           /\ \A k \in Keys : request_count(k) < MaxUsage
           /\ GetInstanceKey(i, threshold)
    \/ \E k \in Keys :
           /\ APIKeyManagerUnused
           /\ request_count(k) < MaxUsage
           /\ KmRecordRequest(k)

SpecAssignments == Init /\ [][NextAssignments]_vars

\* Scenario A: two active credentials of 50 requests a day, both unused; one
\* instance sends its requests through the gateway (wait_for_rate_limit, the
\* upstream call, record_request), which never calls switch_key
InitScenarioA ==
    /\ now = min_request_interval
    /\ config = RateLimitConfig
    /\ api_keys = [k \in Keys |-> NewKeyRow(FALSE)]
    /\ instance_mappings = <<>>
    /\ current_key = [i \in Instances |-> NoKeyInfo]
    /\ pc = [i \in Instances |-> "new"]
    /\ stats = [i \in Instances |-> [attempts |-> 0, dispatches |-> 0, switches |-> 0]]
    /\ ret = NoRet
    /\ InitKeyManager
    /\ InitDiscovery
    /\ InitClient
    /\ InitGateway
    /\ InitModels(FallbackConfig)

NextScenarioA ==
    \/ \E i \in Single : Construct(i)
    \/ \E i \in Single : /\ stats[i].attempts < ScenarioRequests
                          /\ WaitForRateLimit(i, ScenarioHorizon, TRUE)
    \/ \E i \in Single : RecordRequest(i)
    \/ Tick(ScenarioHorizon)

SpecScenarioA == InitScenarioA /\ [][NextScenarioA]_vars

\* the models requests are dispatched to; model c is never used
UsedModels == {"a", "b"}

\* the breakers of one ModelManager: usage is recorded, availability is asked
InitBreakers ==
    /\ now = 0
    /\ InitPool(SmallConfig)
    /\ \E fc \in {SmallFallbackConfig, FallbackConfig} : InitModels(fc)

NextBreakers ==
    \/ \E m \in UsedModels, success \in BOOLEAN :
           /\ recorded_requests(ModelIds) < MaxBreakerRequests
           /\ RecordModelUsage(m, success)
    \/ \E m \in ModelIds : IsModelAvailable(m)
    \/ Tick(MaxClock)

SpecBreakers == InitBreakers /\ [][NextBreakers]_vars

\* one ModelManager over each of the small configurations
InitModelManager ==
    /\ now = 0
    /\ InitPool(SmallConfig)
    /\ \E fc \in SmallFallbackConfigs : InitModels(fc)

\* usage is recorded and primary models are selected
NextSelect ==
    \/ \E m \in UsedModels, success \in BOOLEAN :
           /\ recorded_requests(ModelIds) < MaxRequests
           /\ RecordModelUsage(m, success)
    \/ \E m \in ModelIds : IsModelAvailable(m)
    \/ \E c \in Categories, r \in Requirements : SelectModel(c, r)
    \/ Tick(MaxClock)

SpecSelect == InitModelManager /\ [][NextSelect]_vars

\* usage is recorded and fallback lists are asked for
NextFallback ==
    \/ \E m \in UsedModels, success \in BOOLEAN :
           /\ recorded_requests(ModelIds) < MaxRequests
           /\ RecordModelUsage(m, success)
    \/ \E m \in ModelIds : IsModelAvailable(m)
    \/ \E p \in ModelIds, c \in Categories, r \in Requirements :
           GetFallbackModels(p, c, r)
    \/ Tick(MaxClock)

SpecFallback == InitModelManager /\ [][NextFallback]_vars


\* the registry discovers models; the clock starts a TTL after the epoch
\* of the timestamps
InitRegistry ==
    /\ now = cache_ttl
    /\ InitPool(SmallConfig)
    /\ InitModels(FallbackConfig)

\* a process holds one of the two catalog caches and refreshes it
NextDiscovery ==
    \/ \E force_refresh \in BOOLEAN, response \in CatalogResponses :
           /\ fetches.manager = 0
           /\ disc_reply.op # "fetch_models"
           /\ fetches.registry < MaxFetches
           /\ DiscoverModels(force_refresh, response)
    \/ \E force_refresh \in BOOLEAN, response \in CatalogResponses :
           /\ fetches.registry = 0
           /\ disc_reply.op # "discover_models"
           /\ fetches.manager < MaxFetches
           /\ FetchModels(force_refresh, response)
    \/ Elapse(DiscoveryStep, DiscoveryHorizon)

SpecDiscovery == InitRegistry /\ [][NextDiscovery]_vars

\* a new client serves one chat completion, for a model or for a category
NoCallYet == result = NoResult /\ sent = NothingSent /\ call = IdleCall

NextClient ==
    \/ /\ NoCallYet
       /\ \E first \in UpstreamPlans :
              ChatCompletion("b", "vision", [kind |-> "error", data |-> <<>>],
                             <<first>>)
    \/ /\ NoCallYet
       /\ \E model_category \in Categories, response \in PlainResponses,
             first \in UpstreamPlans, second \in UpstreamPlans :
              ChatCompletion(NoModel, model_category, response, <<first, second>>)
    \/ Dispatch

SpecClient == InitRegistry /\ [][NextClient]_vars

\* the extractor's reasoning stage, with the key pool behind it
NextExtractor ==
    \/ \E k \in Keys : AddApiKey(k, KeyTier[k])
    \/ \E i \in Single : Construct(i)
    \/ \E i \in Single :
           /\ performance[reasoning_model].total_requests < MaxRequests
           /\ ProcessWithReasoningModel(i)
    \/ \E m \in UsedModels, success \in BOOLEAN :
           /\ recorded_requests(ModelIds) < MaxRequests
           /\ RecordModelUsage(m, success)
    \/ Tick(MaxTime)

SpecExtractor == Init /\ [][NextExtractor]_vars

\* the gateway of one extractor: vision extractions with their fallback
\* models and reasoning stages, with the key pool behind it
NextGateway ==
    \/ \E k \in Keys : AddApiKey(k, KeyTier[k])
    \/ \E i \in Single : Construct(i)
    \/ \E i \in Single :
           /\ recorded_requests(TrackedModels) < MaxGatewayRequests
           /\ StartExtraction(i)
    \/ \E i \in Single, success \in BOOLEAN, duration \in {0, 1} :
           /\ now + duration <= MaxTime
           /\ UpstreamAnswers(i, success, duration)
    \/ \E i \in Single : ContinueExtraction(i)
    \/ \E i \in Single :
           /\ recorded_requests(TrackedModels) < MaxGatewayRequests
           /\ ProcessWithReasoningModel(i)
    \/ Tick(MaxTime)

SpecGateway ==
    InitKeys(SmallConfig) /\ InitModels(SmallFallbackConfig) /\ [][NextGateway]_vars

-----------------------------------------------------------------------------
(* Claims *)

\* C1: with one instance using the pool single-threaded, every dispatch
\* preceded by a passing can_make_request and followed by record_request, the
\* request count of a credential (the stored one and the manager's own) never
\* exceeds the credential's daily limit.
C1_QuotaRespected ==
    /\ \A k \in Keys : api_keys[k].present =>
          api_keys[k].daily_requests <= daily_limit(api_keys[k])
    /\ \A i \in Single : current_key[i].key_id # NoKey =>
          current_key[i].daily_requests <= daily_limit(current_key[i])

\* a request was refused because the credential stands at its daily limit
C1_Witness ==
    /\ ret = [op |-> "wait_for_rate_limit", ok |-> FALSE]
    /\ current_key["i1"].key_id # NoKey
    /\ current_key["i1"].daily_requests = daily_limit(current_key["i1"])
    /\ api_keys[current_key["i1"].key_id].daily_requests
         = daily_limit(current_key["i1"])

\* C2: within a day the stored request count of a credential never decreases,
\* whatever pool operation runs (assign, record, switch, registering a secret,
\* also one that is already in the pool).
C2_CountNeverDecreases ==
    [][\A k \in Keys : api_keys[k].present =>
          api_keys'[k].daily_requests >= api_keys[k].daily_requests]_vars

\* C3: an instance that has been assigned a credential has exactly one
\* assignment row (instance_mappings of APIKeyManager, instances of
\* KeyManager), and no instance ever has two.
C3_OneRowPerInstance ==
    /\ \A i \in Instances :
          /\ Len(MappingRows(i)) <= 1
          /\ pc[i] # "new" => Len(MappingRows(i)) = 1
          /\ Len(InstanceRows(i)) <= 1
    /\ (km_reply.op = "get_instance_key" /\ km_reply.key # NoKey)
          => Len(InstanceRows(km_reply.instance)) = 1

\* both instances hold an assignment and one has just switched credential
C3_Witness ==
    /\ ret = [op |-> "switch_key", ok |-> TRUE]
    /\ \A i \in Instances : pc[i] # "new"
    /\ Len(instance_mappings) = 2

\* C4 (Scenario A): once the instance has sent its 60 requests there has been
\* exactly one credential switch, the two credentials' usage adds up to 60
\* and neither is above 50.
C4_ScenarioA ==
    (stats["i1"].attempts = ScenarioRequests /\ pc["i1"] = "idle") =>
        /\ stats["i1"].switches = 1
        /\ api_keys["k1"].daily_requests + api_keys["k2"].daily_requests
             = ScenarioRequests
        /\ \A k \in Keys : api_keys[k].daily_requests <= requests_per_day_free

C6_SuccessResets ==
    [][\A m \in ModelIds :
          RecordModelUsage(m, TRUE)
          => /\ performance'[m].failure_streak = 0
             /\ circuit_breakers'[m].present = circuit_breakers[m].present
             /\ circuit_breakers'[m].present => circuit_breakers'[m].state = "healthy"]_vars

\* a failure of model a (breaker Degraded), then a success
C6_Witness ==
    /\ reply = Reply("record_model_usage", TRUE, "a", <<>>)
    /\ performance["a"].total_requests = 2
    /\ performance["a"].failed_requests = 1
    /\ performance["a"].circuit_breaker_state = "degraded"
    /\ performance["a"].failure_streak = 0
    /\ circuit_breakers["a"].present
    /\ circuit_breakers["a"].state = "healthy"

\* C7: a Failed breaker becomes Degraded only in a step taken more than
\* `timeout` seconds after its last recorded failure; no operation moves it
\* from Failed to Degraded earlier.
C7_DegradedOnlyAfterTimeout ==
    [][\A m \in ModelIds :
          (circuit_breakers[m].state = "failed" /\ circuit_breakers'[m].state = "degraded")
          => now - circuit_breakers[m].last_failure_time
               > fallback_config.circuit_breaker_timeout]_vars

\* the breaker of model a, opened by its failures, has been probed after the
\* timeout
C7_Witness ==
    /\ reply = Reply("is_model_available", TRUE, "a", <<>>)
    /\ circuit_breakers["a"].state = "degraded"
    /\ circuit_breakers["a"].failure_count >= fallback_config.circuit_breaker_threshold
    /\ now - circuit_breakers["a"].last_failure_time > fallback_config.circuit_breaker_timeout

\* C8: _is_model_available answers true for a model whose breaker is Healthy,
\* Degraded or was never created; for a Failed breaker it answers true exactly
\* when now - last_failure_time > timeout, and that call moves the breaker to
\* Degraded; otherwise it answers false and leaves the breaker as it is.
C8_IsAvailable ==
    [][\A m \in ModelIds :
          IsModelAvailable(m)
          => LET b == circuit_breakers[m]
                 elapsed == now - b.last_failure_time
                              > fallback_config.circuit_breaker_timeout
             IN  IF ~b.present \/ b.state \in {"healthy", "degraded"}
                 THEN reply'.ok
                 ELSE IF elapsed
                      THEN reply'.ok /\ circuit_breakers'[m].state = "degraded"
                      ELSE ~reply'.ok /\ circuit_breakers'[m] = b]_vars

\* a Failed breaker asked exactly `timeout` seconds after the last failure
C8_Witness ==
    /\ reply = Reply("is_model_available", FALSE, "a", <<>>)
    /\ circuit_breakers["a"].state = "failed"
    /\ now - circuit_breakers["a"].last_failure_time
         = fallback_config.circuit_breaker_timeout

C10_FallbackExcludes ==
    [][(reply'.op = "get_fallback_models" /\ now' = now)
          => \A n \in 1..Len(reply'.chain) :
                /\ reply'.chain[n] # reply'.model
                /\ ~(/\ circuit_breakers[reply'.chain[n]].present
                     /\ circuit_breakers[reply'.chain[n]].state = "failed"
                     /\ now - circuit_breakers[reply'.chain[n]].last_failure_time
                          <= fallback_config.circuit_breaker_timeout)]_vars

\* cost order is a, c, b: with c the primary and a Failed the chain is b
C10_Witness ==
    /\ reply = Reply("get_fallback_models", TRUE, "c", <<"b">>)
    /\ fallback_config.strategy = "cost"
    /\ fallback_config.exclude_models = {}
    /\ circuit_breakers["a"].state = "failed"
    /\ now - circuit_breakers["a"].last_failure_time
         <= fallback_config.circuit_breaker_timeout

\* C11: when the category has no model that can be selected, the completion
\* fails for want of a model: it reports no success and uses no substitute
\* model.  No registered model is of category reasoning.
C11_NoModelAvailable ==
    (/\ reply.op = "process_with_reasoning_model"
     /\ get_models_by_category("reasoning", FALSE) = <<>>)
    => (~reply.ok /\ reply.model = NoModel)

\* C12 as stated: after a 429 with a Retry-After of r seconds, whatever r,
\* the next request for that model does not start before r seconds passed
C12_RetryAfterAnyHint ==
    (/\ call.pc = "send"
     /\ sent.last.answer.status = 429
     /\ sent.last.answer.has_retry_after)
    => now >= sent.last.time + sent.last.answer.retry_after

\* C12, amended: after a 429 with a Retry-After of r seconds, r no more than
\* max_retry_delay, the next request for that model does not start before r
\* seconds passed
C12_RetryAfterHonoured ==
    (/\ call.pc = "send"
     /\ sent.last.answer.status = 429
     /\ sent.last.answer.has_retry_after
     /\ sent.last.answer.retry_after <= max_retry_delay)
    => now >= sent.last.time + sent.last.answer.retry_after

\* _make_request is about to go round its loop again after a 429 that
\* asked for 5 seconds, and 5 seconds have passed
C12_Witness ==
    /\ call.pc = "send"
    /\ call.attempt = 1
    /\ call.adapter_sends = 0
    /\ sent.last.answer.status = 429
    /\ sent.last.answer.has_retry_after
    /\ sent.last.answer.retry_after = 5
    /\ now = sent.last.time + 5

\* C13: a model that answered with a 4xx other than 429 gets no further
\* request during the call: the next request, if any, is for the next model
C13_RejectedNotRetried ==
    ~(/\ call.pc = "send"
      /\ sent.last.model = call.models_to_try[call.index]
      /\ sent.last.answer.kind = "status"
      /\ sent.last.answer.status \in (400..499) \ {429})

\* C14: during a call a model gets at most max_retries + 1 requests
C14_DispatchesBounded ==
    \A m \in ModelIds : sent.count[m] <= client.max_retries + 1

\* C15: when every model failed, the error raised carries the last error of
\* each model tried
C15_ErrorsOfAllModels ==
    (result.kind = "OpenRouterError" /\ result.message = "All model attempts failed")
    => result.errors = sent.errors

\* C16: no request is started once the caller's timeout has passed since the
\* call began
C16_DeadlineBoundsChain ==
    call.pc = "send" => now <= call.started + client.timeout

C18_RaisesWhenEmpty ==
    (disc_reply.fetched /\ disc_reply.failed)
    => (disc_reply.raised <=> disc_reply.was_empty)

\* C19: a call whose fetch failed leaves the cached models and the
\* timestamp as they were
C19_FailureKeepsCache ==
    [][(fetches' # fetches /\ disc_reply'.failed)
       => /\ registry_models' = registry_models
          /\ last_discovery' = last_discovery
          /\ models_cache' = models_cache
          /\ last_fetch_time' = last_fetch_time]_vars

\* C20: while the pool has an active credential, get_instance_key returns
\* the credential bound to the instance and leaves the assignment alone
\* exactly when that credential is active and its usage today is below
\* daily_limit - threshold; in every other case it returns a credential
\* selected anew and the instance's row holds it
C20_StickyOrReassigned ==
    [][\A i \in Instances, threshold \in {0, SmallRotateThreshold} :
          (/\ km_reply'.op = "get_instance_key"
           /\ km_reply'.instance = i
           /\ \E k \in Keys : km_api_keys[k].present /\ km_api_keys[k].is_active
           /\ GetInstanceKey(i, threshold))
          => LET rows == InstanceRows(i)
                 bound == IF rows = <<>> THEN NoKey ELSE rows[1].key_id
                 sticky == /\ bound # NoKey
                           /\ km_api_keys[bound].is_active
                           /\ request_count(bound)
                                  < km_api_keys[bound].daily_limit - threshold
             IN  IF sticky
                 THEN km_reply'.key = bound /\ instances' = instances
                 ELSE /\ km_reply'.key # NoKey
                      /\ \E n \in 1..Len(instances') :
                             /\ instances'[n].instance_id = i
                             /\ instances'[n].key_id = km_reply'.key]_vars

\* C21: when get_instance_key has to select (the instance has no bound
\* credential that is active and under the mark) and the pool has an active
\* credential, it returns an active credential with the fewest requests
\* today among those under the mark, or, when none is under the mark, among
\* all the active ones
C21_SelectsLeastUsed ==
    [][\A i \in Instances, threshold \in {0, SmallRotateThreshold} :
          LET rows == InstanceRows(i)
              bound == IF rows = <<>> THEN NoKey ELSE rows[1].key_id
              active == {k \in Keys : km_api_keys[k].present /\ km_api_keys[k].is_active}
              under == {k \in active :
                          request_count(k) < km_api_keys[k].daily_limit - threshold}
              pool == IF under # {} THEN under ELSE active
          IN  (/\ km_reply'.op = "get_instance_key"
               /\ km_reply'.instance = i
               /\ active # {}
               /\ bound \notin under
               /\ GetInstanceKey(i, threshold))
              => /\ km_reply'.key \in pool
                 /\ \A j \in pool : request_count(km_reply'.key) <= request_count(j)]_vars

\* C22: get_instance_key returns no credential exactly when the pool holds
\* no active credential
C22_FailsOnlyWithoutActive ==
    [][\A i \in Instances, threshold \in {0, SmallRotateThreshold} :
          (/\ km_reply'.op = "get_instance_key"
           /\ km_reply'.instance = i
           /\ GetInstanceKey(i, threshold))
          => (km_reply'.key = NoKey
              <=> ~\E k \in Keys : km_api_keys[k].present /\ km_api_keys[k].is_active)]_vars

\* C23: for the credential a manager holds, can_make_request answers
\* (false, daily limit reached) exactly when the request count is at or above
\* the daily limit of the credential's tier; otherwise (false, rate limited,
\* with the wait that remains) exactly when less than the minimum interval
\* has passed since the last request; otherwise (true, no reason)
C23_CanDispatch ==
    \A i \in Single : current_key[i].key_id # NoKey =>
        LET ck == current_key[i]
            r == can_make_request(ck, now)
            limit == IF ck.balance_threshold_met
                     THEN config.requests_per_day_paid
                     ELSE config.requests_per_day_free
            at_limit == ck.daily_requests >= limit
            since == now - ck.last_request_time
            too_soon == ~at_limit /\ since < config.min_request_interval
        IN  /\ (~r.ok /\ r.reason = "Daily limit reached") <=> at_limit
            /\ (~r.ok /\ r.reason = "Rate limit: wait") <=> too_soon
            /\ too_soon => parse_wait(r.wait) = config.min_request_interval - since
            /\ (r.ok /\ r.reason = "") <=> (~at_limit /\ ~too_soon)

\* a request was just recorded for a credential under its limit, and the
\* next one has to wait the whole interval
C23_Witness ==
    /\ ret = [op |-> "record_request", ok |-> TRUE]
    /\ current_key["i1"].key_id # NoKey
    /\ current_key["i1"].daily_requests < daily_limit(current_key["i1"])
    /\ now = current_key["i1"].last_request_time
    /\ can_make_request(current_key["i1"], now).reason = "Rate limit: wait"
    /\ parse_wait(can_make_request(current_key["i1"], now).wait)
         = config.min_request_interval

\* C24: record_request of a manager that holds a credential increases the
\* stored request count of that credential by exactly one and sets its
\* last_request_time to the current time (the outcome of the request plays
\* no part in either)
C24_RecordAddsOne ==
    [][\A i \in Instances :
          (/\ ret'.op = "record_request"
           /\ pc[i] = "dispatch"
           /\ current_key[i].key_id # NoKey
           /\ RecordRequest(i))
          => LET k == current_key[i].key_id
             IN  /\ api_keys'[k].daily_requests = api_keys[k].daily_requests + 1
                 /\ api_keys'[k].last_request_time = now]_vars

\* C25: for a manager that holds a credential, should_switch_key is true
\* exactly when the credential's usage has reached its daily limit less the
\* switch margin, or another active credential has been used less by more
\* than the slack; the margin is the one that puts the mark of a free
\* credential at key_switch_threshold
C25_ShouldSwitch ==
    \A i \in Single : current_key[i].key_id # NoKey =>
        LET ck == current_key[i]
            switch_margin == config.requests_per_day_free - config.key_switch_threshold
            at_mark == ck.daily_requests >= daily_limit(ck) - switch_margin
            less_used == \E k \in ActiveKeys \ {ck.key_id} :
                            api_keys[k].daily_requests < ck.daily_requests - switch_slack
        IN  \A better \in select_best_available_key :
                should_switch_key(ck, better) <=> (at_mark \/ less_used)

C30_HealthyUntilThreshold ==
    [][\A m \in ModelIds :
          (/\ circuit_breakers[m].present
           /\ circuit_breakers[m].state = "healthy"
           /\ RecordModelUsage(m, FALSE))
          => circuit_breakers'[m].state =
                IF performance'[m].failure_streak
                      >= fallback_config.circuit_breaker_threshold
                THEN "failed" ELSE "healthy"]_vars

\* C26: two requests in a row that a gateway sends upstream with the same
\* credential, attempts with fallback models included, are at least the
\* minimum interval apart
C26_DispatchesApart ==
    \A n \in 2..Len(extraction.dispatches) :
        extraction.dispatches[n].key = extraction.dispatches[n - 1].key
        => extraction.dispatches[n].time - extraction.dispatches[n - 1].time
              >= config.min_request_interval

\* C27: when a request that sent something upstream is over, the request
\* count of the credential the gateway holds is one more than when the
\* request began, however many models were tried
C27_OneKeyRecordPerRequest ==
    \A i \in Single :
        (extraction.outcome \in {"ok", "error"} /\ extraction.dispatches # <<>>)
        => current_key[i].daily_requests = extraction.usage_at_start + 1

\* a request ended after two attempts, the selected model and a fallback
\* model, with one request counted for the credential
C27_Witness ==
    /\ extraction.outcome \in {"ok", "error"}
    /\ Len(extraction.dispatches) = 2
    /\ extraction.dispatches[1].model # extraction.dispatches[2].model
    /\ current_key["i1"].daily_requests = extraction.usage_at_start + 1
    /\ ret = [op |-> "record_request", ok |-> TRUE]

C31_DegradedFailureFails ==
    [][\A m \in ModelIds :
          (/\ circuit_breakers[m].present
           /\ circuit_breakers[m].state = "degraded"
           /\ RecordModelUsage(m, FALSE))
          => circuit_breakers'[m].state = "failed"]_vars

\* C32: after every record_model_usage and every _is_model_available for a
\* model with a circuit breaker, the circuit_breaker_state of the model's
\* performance record is the state of its breaker
C32_BreakerStateMirrored ==
    [][\A m \in ModelIds :
          (/\ \/ \E success \in BOOLEAN : RecordModelUsage(m, success)
              \/ IsModelAvailable(m)
           /\ circuit_breakers'[m].present)
          => performance'[m].circuit_breaker_state = circuit_breakers'[m].state]_vars

\* C33: every model of the list returned by get_fallback_models(primary,
\* category, requirements) passes the filters that select_model applies to
\* its candidates (the category, free models only when prefer_free_models is
\* set, the requirements, the excluded models), and the list has at most
\* max_retries entries
C33_FallbackPassesFilters ==
    [][\A p \in ModelIds, c \in Categories, r \in Requirements :
          (/\ reply'.op = "get_fallback_models"
           /\ GetFallbackModels(p, c, r))
          => /\ Len(reply'.chain) <= fallback_config.max_retries
             /\ \A n \in 1..Len(reply'.chain) :
                   LET m == reply'.chain[n]
                   IN  /\ models[m].category = c
                       /\ fallback_config.prefer_free_models => models[m].is_free
                       /\ meets_requirements(m, r)
                       /\ m \notin fallback_config.exclude_models]_vars

\* C34: under the strategies performance, cost and reliability the list
\* returned by get_fallback_models starts with the model that the selection
\* strategy of select_model picks among the same candidates (those of the
\* list before it is sorted and cut), whatever has been recorded for them
C34_FallbackRankedAsSelect ==
    [][\A p \in ModelIds, c \in Categories, r \in Requirements :
          (/\ reply'.op = "get_fallback_models"
           /\ fallback_config.strategy \in {"performance", "cost", "reliability"}
           /\ GetFallbackModels(p, c, r))
          => LET all == get_models_by_category(c, FALSE)
                 filtered == filter_by_requirements(all, r, circuit_breakers, now)
                 candidates ==
                     fallback_candidates(filtered, p,
                                         probed(all, r, circuit_breakers, now), now)
             IN  candidates # <<>>
                   => /\ reply'.chain # <<>>
                      /\ reply'.chain[1] = apply_selection_strategy(candidates)]_vars

\* C35: after a discovery that succeeds (discover_models returning True, or
\* fetch_models caching a new answer) the models held are exactly those of
\* the listing just fetched: a model the listing no longer has is not held
C35_HoldsFetchedCatalog ==
    [][\A force_refresh \in BOOLEAN, response \in CatalogResponses :
          LET listed == {response.data[n].id : n \in 1..Len(response.data)}
          IN  /\ (/\ disc_reply'.op = "discover_models"
                  /\ disc_reply'.ok
                  /\ DiscoverModels(force_refresh, response))
                 => {m \in ModelIds : registry_models'[m] # NotCached} = listed
              /\ (/\ disc_reply'.op = "fetch_models"
                  /\ disc_reply'.ok
                  /\ FetchModels(force_refresh, response))
                 => {m \in ModelIds : models_cache'[m] # NotCached} = listed]_vars

\* C36: a credential that reached its daily limit on an earlier calendar day
\* passes the daily-limit check of can_make_request on the new day, with no
\* reset operation called in between
C36_NewDayStartsAtZero ==
    \A i \in Single :
        (/\ current_key[i].key_id # NoKey
         /\ current_key[i].daily_requests >= daily_limit(current_key[i])
         /\ date_of(current_key[i].last_request_time) < date_of(now))
        => can_make_request(current_key[i], now).reason # "Daily limit reached"

\* C37: with several callers bound to one credential, the stored request
\* count of the credential never exceeds its daily limit, and two callers
\* are never both past the check of can_make_request, about to send, when
\* the credential has at most one request left for the day
C37_NoRaceOnLastRequest ==
    /\ \A k \in Keys :
          api_keys[k].present
            => api_keys[k].daily_requests <= daily_limit(api_keys[k])
    /\ \A i, j \in Instances :
          (/\ i # j
           /\ pc[i] = "dispatch"
           /\ pc[j] = "dispatch"
           /\ current_key[i].key_id # NoKey
           /\ current_key[i].key_id = current_key[j].key_id)
          => LET k == current_key[i].key_id
             IN  daily_limit(api_keys[k]) - api_keys[k].daily_requests > 1

\* C38: a chat completion over a chain of k models with max_retries = n
\* has sent at most k * (n + 1) requests upstream at any point before it
\* returns its result, whatever upstream answers
C38_DispatchBudget ==
    call.pc = "send"
      => sent.count["a"] + sent.count["b"] + sent.count["c"]
           <= Len(call.models_to_try) * (client.max_retries + 1)

\* C39: when instances bound to the same credential record their requests in
\* any interleaving, the stored request count of the credential is the
\* number of record_request calls made for it.  An instance has recorded
\* each request it sent, but for the one that is still out.
C39_NoLostUpdate ==
    \A k \in Keys :
        api_keys[k].present =>
            LET records(i) ==
                    IF current_key[i].key_id = k
                    THEN stats[i].dispatches - (IF pc[i] = "dispatch" THEN 1 ELSE 0)
                    ELSE 0
            IN  api_keys[k].daily_requests = records("i1") + records("i2")

\* C40: get_instance_key leaves the request count of every credential as it
\* was, and called again for an instance right after it returned a
\* credential to that instance (no request recorded in between) it returns
\* the same credential
C40_AssignIdempotent ==
    [][\A i \in Instances, threshold \in {0, SmallRotateThreshold} :
          (/\ km_reply'.op = "get_instance_key"
           /\ km_reply'.instance = i
           /\ GetInstanceKey(i, threshold))
          => /\ \A k \in Keys :
                   (IF key_usage'[k].present THEN key_usage'[k].request_count ELSE 0)
                     = request_count(k)
             /\ (/\ km_reply.op = "get_instance_key"
                 /\ km_reply.instance = i
                 /\ km_reply.key # NoKey)
                => km_reply'.key = km_reply.key]_vars

=============================================================================
